---- MODULE Spec2Model ----
(***************************************************************************)
(* A model of nih-log: the Logger (src/src/logger.rs), its builder         *)
(* (src/src/builder.rs), the set-once LOGGER_INSTANCE (src/src/lib.rs),    *)
(* the buffered output targets (src/src/target.rs) and the writer for the  *)
(* Windows debugger (src/src/target/windbg.rs).                            *)
(*                                                                         *)
(* The specifications share the variables: Spec and LiveSpec (threads      *)
(* that log and flush), SpecInstall (two builders), SpecFilter (one call   *)
(* on any blacklist), SpecEnv (one builder, any NIH_LOG), SpecTarget       *)
(* (every target, writes that fail), SpecDebugger (a debugger that comes   *)
(* and goes), SpecWinDbg (the debugger's writer, byte by byte), SpecColor  *)
(* (the colour variables of stderr) and SpecRender (the text of a line).   *)
(*                                                                         *)
(* Strings that the code inspects character by character (module paths,   *)
(* targets, blacklist entries) are sequences of one-character strings.     *)
(* Levels are the integers of the log crate: Error=1, Warn=2, Info=3,      *)
(* Debug=4, Trace=5; a LevelFilter adds Off=0.                             *)
(***************************************************************************)
EXTENDS Integers, Sequences, FiniteSets, TLC

\* ------------------------------------------------------------------ bounds
NumThreads == 2
MaxCalls == 3
MaxDepth == 2
MaxNameLen == 3
MaxBlacklist == 1
MaxDebuggerCalls == 2
MaxWrites == 3
MaxValueLen == 2

\* ------------------------------------------------------- program constants
\* BufWriter::with_capacity(1024, ...) of every stderr and file target.
BufCapacity == 1024
\* const LINE_FEED: u8 = b'\n' of WinDbgWriter::write
LINE_FEED == 10

\* Option values: None, or Some(x) with the value Unwrap gives back.
None == <<>>
Some(x) == <<x>>
Unwrap(o) == o[1]
Threads == 1..NumThreads
Builders == {"b1", "b2"}
Levels == 1..5
LevelFilters == 0..5
Alphabet == {"a", "A", ":"}
\* module paths, targets and blacklist entries: non-empty strings
Names == UNION {[1..n -> Alphabet] : n \in 1..MaxNameLen}
LogPath == "/tmp/out.log"
\* where bytes end up: the process's stderr, the log file, the debugger
Dests == {"stderr", LogPath, "windbg"}
EnvValues == {"stderr", LogPath}

VARIABLES
    NIH_LOG,                    \* value of the NIH_LOG environment variable
    windows,                    \* the build is one for Windows (cfg(windows))
    attached,                   \* windbg::attached(): a debugger is present
    LOGGER_INSTANCE,            \* the OnceCell: None or the Logger's fields
    facade_logger,              \* log crate: which logger log::set_logger() installed
    facade_max_level,           \* log crate: log::max_level()
    builder,                    \* [Builders -> LoggerBuilder fields and position]
    lockHolder,                 \* Logger.output_target: {} or {the thread holding the Mutex}
    poisoned,                   \* Logger.output_target: the Mutex's poison flag
    targetBuf,                  \* Logger.output_target: bytes waiting in its BufWriter
    dbgBuf,                     \* Logger.output_target: bytes waiting in its WinDbgWriter
    out,                        \* [Dests -> chunks that reached the OS], in order
    IS_REENTRANT_LOGGING_CALL,  \* [Threads -> BOOLEAN], the thread local
    stack,                      \* [Threads -> call frames], innermost last
    panicCause,                 \* [Threads -> cause of the thread's last panic]
    calls,                      \* [Threads -> history of the calls it started]
    ret,                        \* result of the last enabled() call, or None
    buffer,                     \* WinDbgWriter.buffer: bytes
    utf16_buffer,               \* WinDbgWriter.utf16_buffer: UTF-16 code units
    emitted,                    \* the buffers handed to OutputDebugStringW, in order
    written,                    \* every write() and flush() made on the writer, in order
    write_ret,                  \* result of the last write() or flush(), or None
    dropped,                    \* the WinDbgWriter has been dropped
    CLICOLOR_FORCE,             \* value of the CLICOLOR_FORCE environment variable
    NO_COLOR,                   \* value of the NO_COLOR environment variable
    CLICOLOR,                   \* value of the CLICOLOR environment variable
    stderr_is_tty,              \* atty::is(Stream::Stderr)
    color_choice,               \* ColorChoice of the last stderr stream made, or None
    record,                     \* the log::Record that do_log renders
    current_thread,             \* std::thread::current(): its id and name
    rendered                    \* the text do_log wrote for record, or None

writerVars == <<buffer, utf16_buffer, emitted, written, write_ret, dropped>>
colorVars == <<CLICOLOR_FORCE, NO_COLOR, CLICOLOR, stderr_is_tty, color_choice>>
renderVars == <<record, current_thread, rendered>>
sideVars == <<colorVars, renderVars>>
hostVars == <<NIH_LOG, sideVars, windows, attached, writerVars>>

vars == <<hostVars, LOGGER_INSTANCE, facade_logger, facade_max_level, builder,
          lockHolder, poisoned, targetBuf, dbgBuf, out, IS_REENTRANT_LOGGING_CALL,
          stack, panicCause, calls, ret>>

installVars == <<LOGGER_INSTANCE, facade_logger, facade_max_level, builder>>
threadVars == <<lockHolder, poisoned, targetBuf, dbgBuf, out,
                IS_REENTRANT_LOGGING_CALL, stack, panicCause, calls>>

\* ----------------------------------------------------------- pure helpers
RECURSIVE FindColon(_, _)
FindColon(s, i) ==
    IF i > Len(s) THEN 0
    ELSE IF s[i] = ":" THEN i
    ELSE FindColon(s, i + 1)

\* str::split_once(':'): the parts before and after the first colon, or None.
split_once(s) ==
    LET i == FindColon(s, 1) IN
    IF i = 0 THEN None
    ELSE Some(<<SubSeq(s, 1, i - 1), SubSeq(s, i + 1, Len(s))>>)

target_enabledNoCrate(module_blacklist, target) ==
    target \notin module_blacklist

\* Logger::target_enabled
target_enabled(module_blacklist, target) ==
    LET sp == split_once(target) IN
    IF sp # None /\ Unwrap(sp)[1] \in module_blacklist
    THEN FALSE
    ELSE target \notin module_blacklist

\* Logger::enabled
enabled(logger, level, target) ==
    level <= logger.max_log_level
    /\ ~target_enabled(logger.module_blacklist, target)

\* the characters of the values that NIH_LOG takes in this model
Unset == "(unset)"
Chars(value) ==
    CASE value = "" -> <<>>
      [] value = "stderr" -> <<"s", "t", "d", "e", "r", "r">>
      [] value = "STDERR" -> <<"S", "T", "D", "E", "R", "R">>
      [] value = "StdErr" -> <<"S", "t", "d", "E", "r", "r">>
      [] value = "stderr2" -> <<"s", "t", "d", "e", "r", "r", "2">>
      [] value = "windbg" -> <<"w", "i", "n", "d", "b", "g">>
      [] value = "WinDbg" -> <<"W", "i", "n", "D", "b", "g">>
      [] OTHER -> <<"/">>

\* u8::to_ascii_lowercase
to_ascii_lowercase(c) ==
    CASE c = "S" -> "s" [] c = "T" -> "t" [] c = "D" -> "d" [] c = "E" -> "e"
      [] c = "R" -> "r" [] c = "W" -> "w" [] c = "I" -> "i" [] c = "N" -> "n"
      [] c = "B" -> "b" [] c = "G" -> "g" [] OTHER -> c

eq_case_sensitive(a, b) == a = b

\* str::eq_ignore_ascii_case
eq_ignore_ascii_case(a, b) ==
    /\ Len(a) = Len(b)
    /\ \A i \in 1..Len(a) : to_ascii_lowercase(a[i]) = to_ascii_lowercase(b[i])

\* target.rs:135 and 139: the comparisons with the two reserved words
IsStderrWord(value) == eq_ignore_ascii_case(Chars(value), Chars("stderr"))
IsWinDbgWord(value) == eq_ignore_ascii_case(Chars(value), Chars("windbg"))

\* std::env::var(NIH_LOG).as_deref().unwrap_or(""): unset reads as empty
var_or_empty(env) == IF env = Unset THEN "" ELSE env

\* File::options().create(true).append(true).open(path) succeeds
Openable(path) == path = LogPath

\* the targets: OutputTargetImpl::new_stderr, new_windbg, new_file_path and
\* new_stderr_or_windbg
StderrTarget == [kind |-> "Stderr", path |-> ""]
WinDbgTarget == [kind |-> "WinDbg", path |-> ""]
FileTarget(path) == [kind |-> "File", path |-> path]
DynamicTarget == [kind |-> "StderrOrWinDbg", path |-> ""]

\* OutputTargetImpl::default_from_environment: the target it returns
default_from_environment(env) ==
    LET value == var_or_empty(env) IN
    IF IsStderrWord(value) THEN StderrTarget
    ELSE IF windows /\ IsWinDbgWord(value) THEN WinDbgTarget
    ELSE IF value # "" /\ Openable(value) THEN FileTarget(value)
    ELSE IF windows THEN DynamicTarget
    ELSE StderrTarget

\* OutputTargetImpl::default_from_environment: the lines it prints to stderr
\* with eprintln! (target.rs:145-150), one when the file cannot be opened
env_diagnostics(env) ==
    LET value == var_or_empty(env) IN
    IF IsStderrWord(value) THEN 0
    ELSE IF windows /\ IsWinDbgWord(value) THEN 0
    ELSE IF value # "" /\ ~Openable(value) THEN 1
    ELSE 0

\* the line of that eprintln!, as a chunk of stderr
DiagChunk == [id |-> <<0, 0>>, part |-> "diag", len |-> 64, att |-> FALSE]
RECURSIVE DiagLines(_)
DiagLines(n) == IF n = 0 THEN <<>> ELSE Append(DiagLines(n - 1), DiagChunk)

\* OutputTargetImpl::writer (target.rs:98-109): the debugger's writer when
\* the target is the debugger, or the dynamic target with a debugger present
writer(target, present) ==
    IF target.kind = "WinDbg" \/ (target.kind = "StderrOrWinDbg" /\ present)
    THEN "dbg" ELSE "buf"

do_log_writerRechecks(target, chosen, present) == writer(target, present)

\* Logger::do_log (logger.rs:56-60) writes every piece to the writer that
\* log() handed it: the one chosen by the single call of writer() for this
\* line (logger.rs:167 and 179), whatever the debugger does meanwhile
do_log_writer(target, chosen, present) == chosen

\* where the bytes of a target's BufWriter end up
DestOf(target) == IF target.kind = "File" THEN target.path ELSE "stderr"

RECURSIVE BufLen(_)
BufLen(buf) == IF buf = <<>> THEN 0 ELSE Head(buf).len + BufLen(Tail(buf))

\* BufWriter::write_all on a writer of capacity BufCapacity whose inner writer
\* appends to o: a chunk that does not fit flushes the buffer first, and a
\* chunk of at least the capacity bypasses the buffer.  ok tells whether the
\* inner writer accepts what it is handed during this call; a failed flush
\* keeps the buffer and drops the chunk.
BufWrite(buf, o, chunk, ok) ==
    LET spare == BufCapacity - BufLen(buf)
        mustFlush == chunk.len > spare
    IN IF chunk.len < spare THEN [buf |-> Append(buf, chunk), o |-> o, err |-> FALSE]
       ELSE IF mustFlush /\ buf # <<>> /\ ~ok THEN [buf |-> buf, o |-> o, err |-> TRUE]
       ELSE LET flushed == IF mustFlush THEN o \o buf ELSE o
                kept == IF mustFlush THEN <<>> ELSE buf
            IN IF chunk.len >= BufCapacity
               THEN IF ok THEN [buf |-> kept, o |-> Append(flushed, chunk), err |-> FALSE]
                    ELSE [buf |-> kept, o |-> flushed, err |-> TRUE]
               ELSE [buf |-> Append(kept, chunk), o |-> flushed, err |-> FALSE]

BufFlushKeeps(buf, o, ok) == [buf |-> buf, o |-> o, err |-> FALSE]

\* BufWriter::flush: a failed flush keeps the bytes in the buffer
BufFlush(buf, o, ok) ==
    IF buf = <<>> THEN [buf |-> buf, o |-> o, err |-> FALSE]
    ELSE IF ok THEN [buf |-> <<>>, o |-> o \o buf, err |-> FALSE]
    ELSE [buf |-> buf, o |-> o, err |-> TRUE]

\* WinDbgWriter::write for one write of do_log: the bytes join the buffer,
\* and the write that ends with the line feed flushes it
DbgWrite(buf, o, chunk) ==
    LET all == Append(buf, chunk) IN
    IF chunk.part = "nl" THEN [buf |-> <<>>, o |-> o \o all, err |-> FALSE]
    ELSE [buf |-> all, o |-> o, err |-> FALSE]

\* WinDbgWriter::flush: never fails
DbgFlush(buf, o) == [buf |-> <<>>, o |-> o \o buf, err |-> FALSE]

\* The writes of Logger::do_log for call k of thread t, in order: the time
\* and level tag, the message, the line terminator.
MsgLen(rec) == IF rec.big THEN 2 * BufCapacity ELSE 8
Piece(t, k, rec, part) ==
    [id |-> <<t, k>>, part |-> part,
     len |-> IF part = "head" THEN 16 ELSE IF part = "msg" THEN MsgLen(rec) ELSE 1,
     att |-> attached]
NextPart(part) ==
    IF part = "head" THEN "msg" ELSE IF part = "msg" THEN "nl" ELSE "flush"

\* logger.rs:163: the thread-local flag decides for the lock-free path
TakesFallbackNever(flag) == FALSE
TakesFallback(flag) == flag

\* logger.rs:175-178: what log() does with the result of lock()
LogLockResultExpect(isPoisoned) == IF isPoisoned THEN "panic" ELSE "proceed"
LogLockResult(isPoisoned) == "proceed"

\* logger.rs:187-190: what flush() does with the result of lock()
FlushLockResult(isPoisoned) == IF isPoisoned THEN "panic" ELSE "proceed"

WriteErrorUnwrap(err) == IF err THEN "panic" ELSE "proceed"

\* logger.rs:64-65: every write and the flush of do_log are `let _ = ...`
WriteErrorResult(err) == "proceed"

\* ------------------------------------------------------- records and frames
\* the records the threads of the concurrent specification log
ThreadRecords ==
    {r \in [level : {3}, target : {<<"a">>}, module_path : {None, Some(<<"A">>)},
            big : BOOLEAN] : r.module_path = None => ~r.big}

NoRecord == [level |-> 0, target |-> <<>>, module_path |-> None, big |-> FALSE]

Top(t) == stack[t][Len(stack[t])]
Pop(stk) == SubSeq(stk, 1, Len(stk) - 1)
SetTop(t, f) == [stack EXCEPT ![t] = [@ EXCEPT ![Len(@)] = f]]
Push(t, f) == [stack EXCEPT ![t] = Append(@, f)]

Logger == Unwrap(LOGGER_INSTANCE)
CfgDest == DestOf(Logger.output_target)

\* do_log runs code of the caller while it formats the message (the record's
\* arguments) and allocates: there another call, or a panic, can start.
AtInterruptPoint(f) == f.op = "log" /\ f.next \in {"msg", "nl"}

RECURSIVE CallsUpTo(_)
CallsUpTo(n) == IF n = 0 THEN 0 ELSE Len(calls[n]) + CallsUpTo(n - 1)
CallsStarted == CallsUpTo(NumThreads)

CanCall(t) ==
    /\ LOGGER_INSTANCE # None
    /\ CallsStarted < MaxCalls
    /\ \/ stack[t] = <<>>
       \/ /\ stack[t] # <<>>
          /\ AtInterruptPoint(Top(t))
          /\ Len(stack[t]) < MaxDepth

NewCall(t, kind, rec, path) ==
    [kind |-> kind, rec |-> rec, depth |-> Len(stack[t]), path |-> path,
     sawPoison |-> FALSE, done |-> path = "filtered",
     target |-> StderrTarget, writer |-> "", att |-> FALSE,
     write_failed |-> FALSE, flush_failed |-> FALSE]

MarkDone(t, k) == [calls EXCEPT ![t] = [@ EXCEPT ![k] = [@ EXCEPT !.done = TRUE]]]

\* the history of call k of thread t records the target it writes to, the
\* writer that writer() chose and whether a debugger was present then
MarkWriter(cs, t, k, target, w) ==
    [cs EXCEPT ![t] = [@ EXCEPT ![k] =
        [@ EXCEPT !.target = target, !.writer = w, !.att = attached]]]

\* Dropping the frames of an unwinding thread, innermost first: the BufWriter
\* of a fallback target flushes what it holds when it is dropped.
RECURSIVE UnwindOut(_, _)
UnwindOut(stk, o) ==
    IF stk = <<>> THEN o
    ELSE LET f == stk[Len(stk)] IN
         UnwindOut(Pop(stk),
                   IF f.path = "fallback"
                   THEN [o EXCEPT ![f.dest] = @ \o f.buf, !["windbg"] = @ \o f.dbuf]
                   ELSE o)

HoldsLockIn(stk) ==
    \E i \in 1..Len(stk) : stk[i].path = "locked" /\ stk[i].next # "lock"

\* A panic unwinds every frame of thread t.  Dropping the MutexGuard of the
\* locked frame releases and poisons the Mutex; the shared BufWriter keeps
\* its bytes; nothing resets the thread-local flag.  The host either catches
\* the panic and the thread goes on, or the thread ends: a thread that has
\* ended is a thread that takes no further step.
PanicUnwind(t, cause) ==
    /\ out' = UnwindOut(stack[t], out)
    /\ IF HoldsLockIn(stack[t])
       THEN lockHolder' = {} /\ poisoned' = TRUE
       ELSE UNCHANGED <<lockHolder, poisoned>>
    /\ stack' = [stack EXCEPT ![t] = <<>>]
    /\ panicCause' = [panicCause EXCEPT ![t] = cause]
    /\ UNCHANGED <<targetBuf, dbgBuf, IS_REENTRANT_LOGGING_CALL, calls>>

\* ------------------------------------------------------------ Logger::log
\* logger.rs:147-170: the blacklist check, then the choice of path.  The
\* fallback path resolves a fresh target from NIH_LOG, which prints its
\* diagnostic when the file cannot be opened, and takes its writer.
LogCall(t, rec) ==
    /\ CanCall(t)
    /\ LET name == IF rec.module_path = None THEN rec.target ELSE Unwrap(rec.module_path)
           k == Len(calls[t]) + 1
           fresh == default_from_environment(NIH_LOG)
       IN IF ~target_enabled(Logger.module_blacklist, name)
          THEN /\ calls' = [calls EXCEPT ![t] = Append(@, NewCall(t, "log", rec, "filtered"))]
               /\ UNCHANGED <<stack, IS_REENTRANT_LOGGING_CALL, out>>
          ELSE IF TakesFallback(IS_REENTRANT_LOGGING_CALL[t])
          THEN /\ calls' = MarkWriter([calls EXCEPT ![t] =
                                          Append(@, NewCall(t, "log", rec, "fallback"))],
                                      t, k, fresh, writer(fresh, attached))
               /\ stack' = Push(t, [k |-> k, op |-> "log", path |-> "fallback",
                                    next |-> "head", buf |-> <<>>, dbuf |-> <<>>,
                                    dest |-> DestOf(fresh),
                                    writer |-> writer(fresh, attached)])
               /\ out' = [out EXCEPT !["stderr"] = @ \o DiagLines(env_diagnostics(NIH_LOG))]
               /\ UNCHANGED IS_REENTRANT_LOGGING_CALL
          ELSE /\ calls' = [calls EXCEPT ![t] = Append(@, NewCall(t, "log", rec, "locked"))]
               /\ IS_REENTRANT_LOGGING_CALL' = [IS_REENTRANT_LOGGING_CALL EXCEPT ![t] = TRUE]
               /\ stack' = Push(t, [k |-> k, op |-> "log", path |-> "locked",
                                    next |-> "lock", buf |-> <<>>, dbuf |-> <<>>,
                                    dest |-> "", writer |-> ""])
               /\ UNCHANGED out
    /\ UNCHANGED <<hostVars, installVars, lockHolder, poisoned, targetBuf, dbgBuf,
                   panicCause, ret>>

\* logger.rs:175-179: self.output_target.lock(), poisoned or not, then
\* target.writer() for the call of do_log
LogLock(t) ==
    /\ stack[t] # <<>>
    /\ Top(t).op = "log" /\ Top(t).next = "lock"
    /\ lockHolder = {}
    /\ IF LogLockResult(poisoned) = "panic"
       THEN PanicUnwind(t, "poison_log")
       ELSE LET w == writer(Logger.output_target, attached) IN
            /\ lockHolder' = {t}
            /\ stack' = SetTop(t, [Top(t) EXCEPT !.next = "head", !.writer = w])
            /\ calls' = MarkWriter([calls EXCEPT ![t] = [@ EXCEPT ![Top(t).k] =
                                                [@ EXCEPT !.sawPoison = poisoned]]],
                                   t, Top(t).k, Logger.output_target, w)
            /\ UNCHANGED <<poisoned, targetBuf, dbgBuf, out, IS_REENTRANT_LOGGING_CALL,
                           panicCause>>
    /\ UNCHANGED <<hostVars, installVars, ret>>

\* logger.rs:66-135: one write of do_log through the writer of the target;
\* its result is dropped (let _ = write!(..))
WritePiece(t, ok) ==
    /\ stack[t] # <<>>
    /\ Top(t).op = "log" /\ Top(t).next \in {"head", "msg", "nl"}
    /\ LET f == Top(t)
           c == calls[t][f.k]
           chunk == Piece(t, f.k, c.rec, f.next)
           w == do_log_writer(c.target, f.writer, attached)
           shared == f.path = "locked"
           r == IF w = "dbg"
                THEN DbgWrite(IF shared THEN dbgBuf ELSE f.dbuf, out["windbg"], chunk)
                ELSE IF shared THEN BufWrite(targetBuf, out[CfgDest], chunk, ok)
                ELSE BufWrite(f.buf, out[f.dest], chunk, ok)
           dest == IF w = "dbg" THEN "windbg" ELSE IF shared THEN CfgDest ELSE f.dest
       IN IF WriteErrorResult(r.err) = "panic"
          THEN PanicUnwind(t, "io")
          ELSE /\ out' = [out EXCEPT ![dest] = r.o]
               /\ targetBuf' = IF shared /\ w = "buf" THEN r.buf ELSE targetBuf
               /\ dbgBuf' = IF shared /\ w = "dbg" THEN r.buf ELSE dbgBuf
               /\ stack' = SetTop(t, [f EXCEPT !.next = NextPart(f.next),
                                              !.buf = IF ~shared /\ w = "buf" THEN r.buf ELSE @,
                                              !.dbuf = IF ~shared /\ w = "dbg" THEN r.buf ELSE @])
               /\ calls' = [calls EXCEPT ![t] = [@ EXCEPT ![f.k] =
                               [@ EXCEPT !.write_failed = @ \/ r.err]]]
               /\ UNCHANGED <<lockHolder, poisoned, IS_REENTRANT_LOGGING_CALL, panicCause>>
    /\ UNCHANGED <<hostVars, installVars, ret>>

\* logger.rs:138 and 180-183: the flush that ends do_log, its result
\* dropped, then the end of log(): the guard is dropped and the flag cleared
\* on the locked path; on the fallback path the fresh target is dropped, and
\* its BufWriter and WinDbgWriter then flush what they still hold (a writer
\* that refused the flush refuses that one too: the bytes are lost).
LogFlushReturn(t, ok) ==
    /\ stack[t] # <<>>
    /\ Top(t).op = "log" /\ Top(t).next = "flush"
    /\ LET f == Top(t)
           c == calls[t][f.k]
           w == do_log_writer(c.target, f.writer, attached)
           shared == f.path = "locked"
           r == IF w = "dbg"
                THEN DbgFlush(IF shared THEN dbgBuf ELSE f.dbuf, out["windbg"])
                ELSE IF shared THEN BufFlush(targetBuf, out[CfgDest], ok)
                ELSE BufFlush(f.buf, out[f.dest], ok)
           dest == IF w = "dbg" THEN "windbg" ELSE IF shared THEN CfgDest ELSE f.dest
           flushed == [out EXCEPT ![dest] = r.o]
       IN IF WriteErrorResult(r.err) = "panic"
          THEN PanicUnwind(t, "io")
          ELSE /\ IF shared
                  THEN /\ out' = flushed
                       /\ targetBuf' = IF w = "buf" THEN r.buf ELSE targetBuf
                       /\ dbgBuf' = IF w = "dbg" THEN r.buf ELSE dbgBuf
                       /\ lockHolder' = {}
                       /\ IS_REENTRANT_LOGGING_CALL' =
                              [IS_REENTRANT_LOGGING_CALL EXCEPT ![t] = FALSE]
                  ELSE /\ out' = IF w = "dbg"
                                 THEN [flushed EXCEPT ![f.dest] = @ \o f.buf]
                                 ELSE [flushed EXCEPT !["windbg"] = @ \o f.dbuf]
                       /\ UNCHANGED <<targetBuf, dbgBuf, lockHolder,
                                      IS_REENTRANT_LOGGING_CALL>>
               /\ stack' = [stack EXCEPT ![t] = Pop(@)]
               /\ calls' = [MarkDone(t, f.k) EXCEPT ![t] = [@ EXCEPT ![f.k] =
                               [@ EXCEPT !.flush_failed = r.err]]]
               /\ UNCHANGED <<poisoned, panicCause>>
    /\ UNCHANGED <<hostVars, installVars, ret>>

\* A panic raised while do_log formats (logger.rs:171-174: not caught).
Panic(t) ==
    /\ stack[t] # <<>>
    /\ AtInterruptPoint(Top(t))
    /\ PanicUnwind(t, "format")
    /\ UNCHANGED <<hostVars, installVars, ret>>

\* ---------------------------------------------------------- Logger::flush
FlushCall(t) ==
    /\ CanCall(t)
    /\ calls' = [calls EXCEPT ![t] = Append(@, NewCall(t, "flush", NoRecord, "flush"))]
    /\ stack' = Push(t, [k |-> Len(calls[t]) + 1, op |-> "flush", path |-> "flush",
                         next |-> "lock", buf |-> <<>>, dbuf |-> <<>>,
                         dest |-> "", writer |-> ""])
    /\ UNCHANGED <<hostVars, installVars, lockHolder, poisoned, targetBuf, dbgBuf, out,
                   IS_REENTRANT_LOGGING_CALL, panicCause, ret>>

\* logger.rs:187-192: lock().expect("Mutex poisoned"), flush the writer that
\* writer() gives, drop the guard
FlushLock(t) ==
    /\ stack[t] # <<>>
    /\ Top(t).op = "flush" /\ Top(t).next = "lock"
    /\ lockHolder = {}
    /\ IF FlushLockResult(poisoned) = "panic"
       THEN PanicUnwind(t, "poison_flush")
       ELSE LET w == writer(Logger.output_target, attached)
                r == IF w = "dbg" THEN DbgFlush(dbgBuf, out["windbg"])
                     ELSE BufFlush(targetBuf, out[CfgDest], TRUE)
            IN
            /\ out' = [out EXCEPT ![IF w = "dbg" THEN "windbg" ELSE CfgDest] = r.o]
            /\ targetBuf' = IF w = "buf" THEN r.buf ELSE targetBuf
            /\ dbgBuf' = IF w = "dbg" THEN r.buf ELSE dbgBuf
            /\ stack' = [stack EXCEPT ![t] = Pop(@)]
            /\ calls' = MarkDone(t, Top(t).k)
            /\ UNCHANGED <<lockHolder, poisoned, IS_REENTRANT_LOGGING_CALL,
                           panicCause>>
    /\ UNCHANGED <<hostVars, installVars, ret>>

\* logger.rs:189 reached by a thread that holds the Mutex in its own log():
\* std leaves the outcome open, the call never returns: it blocks for ever
\* or it panics.
FlushRelock(t) ==
    /\ stack[t] # <<>>
    /\ Top(t).op = "flush" /\ Top(t).next = "lock"
    /\ lockHolder = {t}
    /\ \/ /\ stack' = SetTop(t, [Top(t) EXCEPT !.next = "stuck"])
          /\ UNCHANGED <<lockHolder, poisoned, targetBuf, dbgBuf, out,
                         IS_REENTRANT_LOGGING_CALL, panicCause, calls>>
       \/ PanicUnwind(t, "relock")
    /\ UNCHANGED <<hostVars, installVars, ret>>

ThreadStep(t) ==
    \/ \E rec \in ThreadRecords : LogCall(t, rec)
    \/ LogLock(t)
    \/ WritePiece(t, TRUE)
    \/ LogFlushReturn(t, TRUE)
    \/ Panic(t)
    \/ FlushCall(t)
    \/ FlushLock(t)
    \/ FlushRelock(t)

\* -------------------------------------------------- the concurrent system
InstalledLogger ==
    [max_log_level |-> 3, always_show_module_path |-> FALSE,
     module_blacklist |-> {<<"a">>},
     output_target |-> FileTarget(LogPath)]

IdleBuilder ==
    [pc |-> "done", max_log_level |-> 3, always_show_module_path |-> FALSE,
     output_target |-> None, module_blacklist |-> {}, logger |-> None,
     after_ok |-> FALSE, error |-> None, before |-> None]

\* a WinDbgWriter that nothing uses
WriterIdle ==
    /\ buffer = <<>>
    /\ utf16_buffer = <<>>
    /\ emitted = <<>>
    /\ written = <<>>
    /\ write_ret = None
    /\ dropped = FALSE

\* an environment variable that is not set
NoVar == [state |-> "unset", chars |-> <<>>]

\* no colour variable is set, stderr is no terminal, no stream was made
ColorIdle ==
    /\ CLICOLOR_FORCE = NoVar
    /\ NO_COLOR = NoVar
    /\ CLICOLOR = NoVar
    /\ stderr_is_tty = FALSE
    /\ color_choice = None

\* nothing is being rendered
RenderIdle ==
    /\ record = [level |-> 0, module_path |-> None, file |-> None, line |-> None]
    /\ current_thread = [id |-> "1", name |-> None]
    /\ rendered = None

SideIdle == ColorIdle /\ RenderIdle

\* a build for another system than Windows: no debugger channel
HostInit ==
    /\ windows = FALSE
    /\ attached = FALSE
    /\ WriterIdle
    /\ SideIdle

ThreadInit ==
    /\ lockHolder = {}
    /\ poisoned = FALSE
    /\ targetBuf = <<>>
    /\ dbgBuf = <<>>
    /\ out = [d \in Dests |-> <<>>]
    /\ IS_REENTRANT_LOGGING_CALL = [t \in Threads |-> FALSE]
    /\ stack = [t \in Threads |-> <<>>]
    /\ panicCause = [t \in Threads |-> "none"]
    /\ calls = [t \in Threads |-> <<>>]

\* A logger built with the explicit file target and installed; NIH_LOG names
\* that same file or stderr.
Init ==
    /\ NIH_LOG \in EnvValues
    /\ HostInit
    /\ LOGGER_INSTANCE = Some(InstalledLogger)
    /\ facade_logger = "nih"
    /\ facade_max_level = 3
    /\ builder = [b \in Builders |-> IdleBuilder]
    /\ ThreadInit
    /\ ret = None

Next == \E t \in Threads : ThreadStep(t)

Spec == Init /\ [][Next]_vars

\* ---------------------------------------------------------- LoggerBuilder
BadPath == "/no/such/dir/out.log"
ConfigLevels == {2, 4}
ConfigNames == {<<"a">>, <<"a", ":">>}

\* LoggerBuilder::new
NewBuilder(max_log_level) ==
    [pc |-> "config", max_log_level |-> max_log_level,
     always_show_module_path |-> FALSE, output_target |-> None,
     module_blacklist |-> {}, logger |-> None, after_ok |-> FALSE,
     error |-> None, before |-> None]

Configuring(b) == builder[b].pc = "config"

\* LoggerBuilder::always_show_module_path
always_show_module_path(b) ==
    /\ Configuring(b)
    /\ ~builder[b].always_show_module_path
    /\ builder' = [builder EXCEPT ![b].always_show_module_path = TRUE]
    /\ UNCHANGED <<hostVars, LOGGER_INSTANCE, facade_logger, facade_max_level,
                   threadVars, ret>>

\* LoggerBuilder::filter_crate and LoggerBuilder::filter_module: both insert
\* the name into the one blacklist
filter_module(b, name) ==
    /\ Configuring(b)
    /\ Cardinality(builder[b].module_blacklist \cup {name}) <= MaxBlacklist
    /\ name \notin builder[b].module_blacklist
    /\ builder' = [builder EXCEPT ![b].module_blacklist = @ \cup {name}]
    /\ UNCHANGED <<hostVars, LOGGER_INSTANCE, facade_logger, facade_max_level,
                   threadVars, ret>>

\* the configuration that a LoggerBuilder carries (builder.rs:15-28)
Config(bld) ==
    [max_log_level |-> bld.max_log_level,
     always_show_module_path |-> bld.always_show_module_path,
     output_target |-> bld.output_target,
     module_blacklist |-> bld.module_blacklist]

FileOpenErrorCleared(cfg, path) ==
    [builder |-> [cfg EXCEPT !.output_target = None], path |-> path,
     error |-> "io::Error"]

\* SetTargetError::FileOpenError { builder: self, path, error }
\* (builder.rs:178-182): the early return comes before self.output_target is
\* assigned, so self is the builder as it was handed in
FileOpenError(cfg, path) == [builder |-> cfg, path |-> path, error |-> "io::Error"]

\* LoggerBuilder::with_output_target: Ok(self) with the new target, or the
\* error for a file that cannot be opened.  The WinDbg variant exists on
\* Windows builds only.
with_output_target(b, target) ==
    /\ Configuring(b)
    /\ builder[b].output_target # Some(target)
    /\ target.kind = "WinDbg" => windows
    /\ IF target.kind = "File" /\ ~Openable(target.path)
       THEN builder' = [builder EXCEPT
                ![b].pc = "target_err",
                ![b].error = Some(FileOpenError(Config(builder[b]), target.path)),
                ![b].before = Some([config |-> Config(builder[b]),
                                    path |-> target.path])]
       ELSE builder' = [builder EXCEPT ![b].output_target = Some(target)]
    /\ UNCHANGED <<hostVars, LOGGER_INSTANCE, facade_logger, facade_max_level,
                   threadVars, ret>>

\* impl From<SetTargetError> for LoggerBuilder (builder.rs:55-61): the caller
\* takes the builder back out of the error
into_builder(b) ==
    /\ builder[b].pc = "target_err"
    /\ LET cfg == Unwrap(builder[b].error).builder IN
       builder' = [builder EXCEPT
           ![b].pc = "config",
           ![b].max_log_level = cfg.max_log_level,
           ![b].always_show_module_path = cfg.always_show_module_path,
           ![b].output_target = cfg.output_target,
           ![b].module_blacklist = cfg.module_blacklist,
           ![b].error = None,
           ![b].before = None]
    /\ UNCHANGED <<hostVars, LOGGER_INSTANCE, facade_logger, facade_max_level,
                   threadVars, ret>>

try_insertOverwrite(cell, value) == [cell |-> Some(value), ok |-> TRUE]

\* OnceCell::try_insert on LOGGER_INSTANCE (builder.rs:134): set once
try_insert(cell, value) ==
    IF cell = None THEN [cell |-> Some(value), ok |-> TRUE]
    ELSE [cell |-> cell, ok |-> FALSE]

\* the Logger that build_global constructs (builder.rs:109-129)
BuiltLogger(b) ==
    [max_log_level |-> builder[b].max_log_level,
     always_show_module_path |-> builder[b].always_show_module_path,
     module_blacklist |-> builder[b].module_blacklist,
     output_target |-> IF builder[b].output_target # None
                       THEN Unwrap(builder[b].output_target)
                       ELSE default_from_environment(NIH_LOG)]

Succeeded(b) == builder[b].pc = "ok"

\* build_global up to LOGGER_INSTANCE.try_insert(logger) (builder.rs:108-134):
\* a builder without a target resolves one from NIH_LOG, which prints its
\* diagnostic to stderr when the file cannot be opened
build_global_insert(b) ==
    /\ Configuring(b)
    /\ LET r == try_insert(LOGGER_INSTANCE, BuiltLogger(b)) IN
       /\ LOGGER_INSTANCE' = r.cell
       /\ builder' = [builder EXCEPT ![b].pc = IF r.ok THEN "inserted" ELSE "err",
                                     ![b].logger = Some(BuiltLogger(b)),
                                     ![b].after_ok = \E b2 \in Builders : Succeeded(b2)]
    /\ out' = IF builder[b].output_target = None
              THEN [out EXCEPT !["stderr"] = @ \o DiagLines(env_diagnostics(NIH_LOG))]
              ELSE out
    /\ UNCHANGED <<hostVars, facade_logger, facade_max_level, lockHolder, poisoned,
                   targetBuf, dbgBuf, IS_REENTRANT_LOGGING_CALL, stack, panicCause,
                   calls, ret>>

\* log::set_logger(logger_instance).map_err(..)? (builder.rs:136): the facade
\* takes a logger once
build_global_set_logger(b) ==
    /\ builder[b].pc = "inserted"
    /\ IF facade_logger = "none"
       THEN /\ facade_logger' = "nih"
            /\ builder' = [builder EXCEPT ![b].pc = "set"]
       ELSE /\ builder' = [builder EXCEPT ![b].pc = "err"]
            /\ UNCHANGED facade_logger
    /\ UNCHANGED <<hostVars, LOGGER_INSTANCE, facade_max_level, threadVars, ret>>

\* log::set_max_level(max_log_level); Ok(()) (builder.rs:137-138)
build_global_set_max_level(b) ==
    /\ builder[b].pc = "set"
    /\ facade_max_level' = builder[b].max_log_level
    /\ builder' = [builder EXCEPT ![b].pc = "ok"]
    /\ UNCHANGED <<hostVars, LOGGER_INSTANCE, facade_logger, threadVars, ret>>

\* another crate of the process hands its own logger to the facade
foreign_set_logger ==
    /\ facade_logger = "none"
    /\ facade_logger' = "foreign"
    /\ UNCHANGED <<hostVars, LOGGER_INSTANCE, facade_max_level, builder,
                   threadVars, ret>>

BuilderStep(b) ==
    \/ always_show_module_path(b)
    \/ \E name \in ConfigNames : filter_module(b, name)
    \/ \E target \in {StderrTarget, WinDbgTarget, FileTarget(LogPath),
                      FileTarget(BadPath)} :
          with_output_target(b, target)
    \/ into_builder(b)
    \/ build_global_insert(b)
    \/ build_global_set_logger(b)
    \/ build_global_set_max_level(b)

\* Nothing is installed yet; every builder comes from LoggerBuilder::new.
InitInstall ==
    /\ NIH_LOG \in EnvValues
    /\ HostInit
    /\ LOGGER_INSTANCE = None
    /\ facade_logger = "none"
    /\ facade_max_level = 0
    /\ builder \in [Builders -> {NewBuilder(l) : l \in ConfigLevels}]
    /\ ThreadInit
    /\ ret = None

NextInstall == foreign_set_logger \/ \E b \in Builders : BuilderStep(b)

SpecInstall == InitInstall /\ [][NextInstall]_vars

\* --------------------------------------- one builder, any value of NIH_LOG
AllEnvValues ==
    {Unset, "", "stderr", "STDERR", "StdErr", "stderr2", "windbg", "WinDbg",
     LogPath, BadPath}

\* Nothing is installed; the build is for Windows or not; only builder b1
\* is used.
InitEnv ==
    /\ NIH_LOG \in AllEnvValues
    /\ windows \in BOOLEAN
    /\ attached = FALSE
    /\ WriterIdle
    /\ SideIdle
    /\ LOGGER_INSTANCE = None
    /\ facade_logger = "none"
    /\ facade_max_level = 0
    /\ \E l \in ConfigLevels :
          builder = [b \in Builders |-> IF b = "b1" THEN NewBuilder(l) ELSE IdleBuilder]
    /\ ThreadInit
    /\ ret = None

NextEnv == BuilderStep("b1")

SpecEnv == InitEnv /\ [][NextEnv]_vars

\* ------------------------------------------------- filtering, one thread
Entries == {n \in Names : Len(n) < MaxNameLen}
RECURSIVE SetsUpTo(_)
SetsUpTo(n) ==
    IF n = 0 THEN {{}}
    ELSE LET smaller == SetsUpTo(n - 1) IN
         smaller \cup {bl \cup {e} : bl \in smaller, e \in Entries}
Blacklists == SetsUpTo(MaxBlacklist)

\* the records handed to log(): every name at one level, every level for
\* two names
FilterRecords ==
    [level : {3}, target : {<<"a">>}, module_path : {Some(n) : n \in Names},
     big : {FALSE}]
    \cup [level : Levels, target : {<<"a">>}, module_path : {None, Some(<<"A">>)},
          big : {FALSE}]

\* each behaviour of the filtering specification makes one call
NoCallYet == CallsStarted = 0 /\ ret = None

\* Logger::enabled called by the facade's user
CallEnabled(level, target) ==
    /\ LOGGER_INSTANCE # None
    /\ NoCallYet
    /\ ret' = Some([level |-> level, target |-> target,
                    value |-> enabled(Logger, level, target)])
    /\ UNCHANGED <<hostVars, installVars, threadVars>>

FilterLog(rec) == NoCallYet /\ LogCall(1, rec)

\* A logger installed with a maximum level, any small blacklist and the
\* target that NIH_LOG=stderr resolves to.
InitFilter ==
    /\ NIH_LOG \in {"stderr"}
    /\ HostInit
    /\ \E l \in ConfigLevels, bl \in Blacklists :
          LOGGER_INSTANCE = Some([max_log_level |-> l,
                                  always_show_module_path |-> FALSE,
                                  module_blacklist |-> bl,
                                  output_target |-> default_from_environment(NIH_LOG)])
    /\ facade_logger = "nih"
    /\ facade_max_level = 5
    /\ builder = [b \in Builders |-> IdleBuilder]
    /\ ThreadInit
    /\ ret = None

NextFilter ==
    \/ NoCallYet /\ \E level \in Levels, target \in Names : CallEnabled(level, target)
    \/ NoCallYet /\ \E rec \in FilterRecords : FilterLog(rec)
    \/ LogLock(1)
    \/ WritePiece(1, TRUE)
    \/ LogFlushReturn(1, TRUE)

SpecFilter == InitFilter /\ [][NextFilter]_vars

\* ------------------------- every kind of target, failing writes, one thread
TargetKinds == {StderrTarget, WinDbgTarget, FileTarget(LogPath), DynamicTarget}

\* a debugger attaches to the process or detaches from it
DebuggerChange ==
    /\ windows
    /\ attached' = ~attached
    /\ UNCHANGED <<NIH_LOG, sideVars, windows, writerVars, installVars, threadVars, ret>>

\* A Windows build with a logger installed on any of the four targets;
\* NIH_LOG is unset or names the log file.
InitTarget ==
    /\ NIH_LOG \in {Unset, LogPath}
    /\ windows = TRUE
    /\ attached \in BOOLEAN
    /\ WriterIdle
    /\ SideIdle
    /\ \E tg \in TargetKinds :
          LOGGER_INSTANCE = Some([InstalledLogger EXCEPT !.output_target = tg])
    /\ facade_logger = "nih"
    /\ facade_max_level = 3
    /\ builder = [b \in Builders |-> IdleBuilder]
    /\ ThreadInit
    /\ ret = None

NextTarget ==
    \/ \E rec \in ThreadRecords : LogCall(1, rec)
    \/ LogLock(1)
    \/ \E ok \in BOOLEAN : WritePiece(1, ok)
    \/ \E ok \in BOOLEAN : LogFlushReturn(1, ok)

SpecTarget == InitTarget /\ [][NextTarget]_vars

\* ------------------------------- a debugger that comes and goes, one thread
SmallRecord ==
    [level |-> 3, target |-> <<"a">>, module_path |-> Some(<<"A">>), big |-> FALSE]

\* the calls of this specification are outermost calls, a few of them
DebuggerCall == CallsStarted < MaxDebuggerCalls /\ stack[1] = <<>>

NextDebugger ==
    \/ DebuggerCall /\ LogCall(1, SmallRecord)
    \/ LogLock(1)
    \/ WritePiece(1, TRUE)
    \/ LogFlushReturn(1, TRUE)
    \/ DebuggerChange

SpecDebugger == InitTarget /\ [][NextDebugger]_vars

\* ------------------------------------------------- WinDbgWriter, byte level
\* Bytes are 0..255, UTF-16 code units 0..65535, characters their code points.
IsContinuation(b) == b >= 128 /\ b < 192
IsSurrogate(cp) == cp >= 55296 /\ cp <= 57343

\* std::str::from_utf8: the characters of bytes, or the error
RECURSIVE from_utf8(_)
from_utf8(bytes) ==
    IF bytes = <<>> THEN [ok |-> TRUE, chars |-> <<>>]
    ELSE LET b == bytes[1]
             n == IF b < 128 THEN 1 ELSE IF b >= 194 /\ b < 224 THEN 2
                  ELSE IF b >= 224 /\ b < 240 THEN 3
                  ELSE IF b >= 240 /\ b < 245 THEN 4 ELSE 0
         IN IF n = 0 \/ Len(bytes) < n \/ \E i \in 2..n : ~IsContinuation(bytes[i])
            THEN [ok |-> FALSE, chars |-> <<>>]
            ELSE LET cp == IF n = 1 THEN b
                           ELSE IF n = 2 THEN (b - 192) * 64 + (bytes[2] - 128)
                           ELSE IF n = 3 THEN (b - 224) * 4096 + (bytes[2] - 128) * 64
                                              + (bytes[3] - 128)
                           ELSE (b - 240) * 262144 + (bytes[2] - 128) * 4096
                                + (bytes[3] - 128) * 64 + (bytes[4] - 128)
                     rest == from_utf8(SubSeq(bytes, n + 1, Len(bytes)))
                     good == /\ (n = 3) => (cp >= 2048 /\ ~IsSurrogate(cp))
                             /\ (n = 4) => (cp >= 65536 /\ cp <= 1114111)
                 IN IF good /\ rest.ok
                    THEN [ok |-> TRUE, chars |-> <<cp>> \o rest.chars]
                    ELSE [ok |-> FALSE, chars |-> <<>>]

RECURSIVE encode_utf16NoSurrogates(_)
encode_utf16NoSurrogates(chars) ==
    IF chars = <<>> THEN <<>>
    ELSE <<Head(chars) % 65536>> \o encode_utf16NoSurrogates(Tail(chars))

\* str::encode_utf16: one unit for a character below U+10000, a surrogate
\* pair above
RECURSIVE encode_utf16(_)
encode_utf16(chars) ==
    IF chars = <<>> THEN <<>>
    ELSE LET cp == Head(chars) IN
         (IF cp < 65536 THEN <<cp>>
          ELSE <<55296 + ((cp - 65536) \div 1024), 56320 + ((cp - 65536) % 1024)>>)
         \o encode_utf16(Tail(chars))

\* the units of format!("ERROR: Invalid UTF-8 in input: {err}"), shortened to
\* its first word
DiagUnits == <<69, 82, 82, 79, 82>>

FlushUnitsNoDiagnostic(bytes) == encode_utf16(from_utf8(bytes).chars)

\* windbg.rs:72-77: the text of the buffer, or the diagnostic, in UTF-16
FlushUnits(bytes) ==
    LET r == from_utf8(bytes) IN
    IF r.ok THEN encode_utf16(r.chars) ELSE DiagUnits

\* WinDbgWriter::flush on the writer st: nothing for an empty buffer; else
\* the null-terminated UTF-16 buffer goes to OutputDebugStringW and the byte
\* buffer is cleared (the UTF-16 buffer keeps its content until the next
\* flush)
WriterFlush(st) ==
    IF st.buffer = <<>> THEN st
    ELSE LET units == Append(FlushUnits(st.buffer), 0) IN
         [buffer |-> <<>>, utf16_buffer |-> units, emitted |-> Append(st.emitted, units)]

\* [u8]::split_inclusive(|c| c == &LINE_FEED): the pieces of bytes, each
\* ending with its line feed, the last one possibly without
RECURSIVE split_inclusive(_, _)
split_inclusive(bytes, piece) ==
    IF bytes = <<>> THEN (IF piece = <<>> THEN <<>> ELSE <<piece>>)
    ELSE IF Head(bytes) = LINE_FEED
    THEN <<Append(piece, LINE_FEED)>> \o split_inclusive(Tail(bytes), <<>>)
    ELSE split_inclusive(Tail(bytes), Append(piece, Head(bytes)))

RECURSIVE WriteLinesFlushAtEnd(_, _)
WriteLinesFlushAtEnd(st, lines) ==
    IF lines = <<>> THEN (IF st.buffer # <<>> /\ st.buffer[Len(st.buffer)] = LINE_FEED
                          THEN WriterFlush(st) ELSE st)
    ELSE WriteLinesFlushAtEnd([st EXCEPT !.buffer = @ \o Head(lines)], Tail(lines))

\* the loop of WinDbgWriter::write (windbg.rs:53-58): each piece joins the
\* buffer, and a piece that ends with the line feed flushes it
RECURSIVE WriteLines(_, _)
WriteLines(st, lines) ==
    IF lines = <<>> THEN st
    ELSE LET line == Head(lines)
             joined == [st EXCEPT !.buffer = @ \o line]
         IN WriteLines(IF line[Len(line)] = LINE_FEED THEN WriterFlush(joined) ELSE joined,
                       Tail(lines))

WriterState == [buffer |-> buffer, utf16_buffer |-> utf16_buffer, emitted |-> emitted]

SetWriter(st) ==
    /\ buffer' = st.buffer
    /\ utf16_buffer' = st.utf16_buffer
    /\ emitted' = st.emitted

WriterCanBeCalled == ~dropped /\ Len(written) < MaxWrites

\* WinDbgWriter::write
write(buf) ==
    /\ WriterCanBeCalled
    /\ SetWriter(WriteLines(WriterState, split_inclusive(buf, <<>>)))
    /\ written' = Append(written, [op |-> "write", bytes |-> buf])
    /\ write_ret' = Some([op |-> "write", ok |-> TRUE, n |-> Len(buf)])
    /\ UNCHANGED <<NIH_LOG, sideVars, windows, attached, dropped, installVars, threadVars, ret>>

\* WinDbgWriter::flush
flush ==
    /\ WriterCanBeCalled
    /\ SetWriter(WriterFlush(WriterState))
    /\ written' = Append(written, [op |-> "flush", bytes |-> <<>>])
    /\ write_ret' = Some([op |-> "flush", ok |-> TRUE, n |-> 0])
    /\ UNCHANGED <<NIH_LOG, sideVars, windows, attached, dropped, installVars, threadVars, ret>>

\* Drop for WinDbgWriter (windbg.rs:37-43): a last flush
drop ==
    /\ ~dropped
    /\ SetWriter(WriterFlush(WriterState))
    /\ dropped' = TRUE
    /\ UNCHANGED <<NIH_LOG, sideVars, windows, attached, written, write_ret, installVars,
                   threadVars, ret>>

\* str::as_bytes: the UTF-8 bytes of a text
RECURSIVE as_bytes(_)
as_bytes(chars) ==
    IF chars = <<>> THEN <<>>
    ELSE LET cp == Head(chars) IN
         (IF cp < 128 THEN <<cp>>
          ELSE IF cp < 2048 THEN <<192 + (cp \div 64), 128 + (cp % 64)>>
          ELSE IF cp < 65536
          THEN <<224 + (cp \div 4096), 128 + ((cp \div 64) % 64), 128 + (cp % 64)>>
          ELSE <<240 + (cp \div 262144), 128 + ((cp \div 4096) % 64),
                 128 + ((cp \div 64) % 64), 128 + (cp % 64)>>)
         \o as_bytes(Tail(chars))

\* the characters of the texts written: line feed, a, U+00E9 and U+1F600
TextChars == {LINE_FEED, 97, 233, 128512}
Texts == {<<>>} \cup {<<c>> : c \in TextChars} \cup {<<c, d>> : c, d \in TextChars}

\* writes that are no text by themselves: halves of characters, a byte that
\* no UTF-8 text contains
RawInputs == {<<240, 159>>, <<152, 128>>, <<195>>, <<169, LINE_FEED>>, <<255>>}

WriteInputs == {as_bytes(t) : t \in Texts} \cup RawInputs

\* A fresh WinDbgWriter; the logger is not in use.
InitWinDbg ==
    /\ NIH_LOG = Unset
    /\ windows = TRUE
    /\ attached = TRUE
    /\ WriterIdle
    /\ SideIdle
    /\ LOGGER_INSTANCE = None
    /\ facade_logger = "none"
    /\ facade_max_level = 0
    /\ builder = [b \in Builders |-> IdleBuilder]
    /\ ThreadInit
    /\ ret = None

NextWinDbg ==
    \/ \E buf \in WriteInputs : write(buf)
    \/ flush
    \/ drop

SpecWinDbg == InitWinDbg /\ [][NextWinDbg]_vars

\* ------------------------------------------------ the colours of stderr
\* the values the three colour variables take: not set, set to something
\* that is not Unicode, or set to a short text of zeros, ones and spaces
ColorChars == {"0", "1", " "}
ColorTexts == UNION {[1..n -> ColorChars] : n \in 0..MaxValueLen}
VarValues ==
    {NoVar, [state |-> "not_unicode", chars |-> <<>>]}
        \cup {[state |-> "ok", chars |-> c] : c \in ColorTexts}

\* std::env::var: Ok(text) for a variable set to Unicode text, else Err
env_var(v) == IF v.state = "ok" THEN Some(v.chars) ELSE None

\* char::is_whitespace
is_whitespace(c) == c = " "

RECURSIVE trim_start(_)
trim_start(s) ==
    IF s # <<>> /\ is_whitespace(Head(s)) THEN trim_start(Tail(s)) ELSE s

RECURSIVE trim_end(_)
trim_end(s) ==
    IF s # <<>> /\ is_whitespace(s[Len(s)]) THEN trim_end(SubSeq(s, 1, Len(s) - 1))
    ELSE s

\* str::trim
trim(s) == trim_end(trim_start(s))

stderr_color_supportNoColorFirst(force, no_color, clicolor, tty) ==
    IF no_color # None /\ trim(Unwrap(no_color)) # <<"0">> THEN "Never"
    ELSE IF force # None /\ trim(Unwrap(force)) # <<"0">> THEN "Always"
    ELSE IF clicolor # None /\ trim(Unwrap(clicolor)) = <<"0">> THEN "Never"
    ELSE IF tty THEN "Auto"
    ELSE "Never"

\* stderr_color_support (target.rs:162-188), on the results of env::var for
\* CLICOLOR_FORCE, NO_COLOR and CLICOLOR and the result of atty::is
stderr_color_support(force, no_color, clicolor, tty) ==
    IF force # None /\ trim(Unwrap(force)) # <<"0">> THEN "Always"
    ELSE IF no_color # None /\ trim(Unwrap(no_color)) # <<"0">> THEN "Never"
    ELSE IF clicolor # None /\ trim(Unwrap(clicolor)) = <<"0">> THEN "Never"
    ELSE IF tty THEN "Auto"
    ELSE "Never"

\* OutputTargetImpl::new_stderr: the stream is made with the colour choice
\* that the environment gives at this moment
new_stderr ==
    /\ color_choice' = Some(stderr_color_support(env_var(CLICOLOR_FORCE),
                                                 env_var(NO_COLOR),
                                                 env_var(CLICOLOR), stderr_is_tty))
    /\ UNCHANGED <<CLICOLOR_FORCE, NO_COLOR, CLICOLOR, stderr_is_tty, renderVars>>
    /\ UNCHANGED <<NIH_LOG, windows, attached, writerVars, installVars, threadVars, ret>>

\* Any setting of the three variables, stderr a terminal or not; the logger
\* is not in use.
InitColor ==
    /\ CLICOLOR_FORCE \in VarValues
    /\ NO_COLOR \in VarValues
    /\ CLICOLOR \in VarValues
    /\ stderr_is_tty \in BOOLEAN
    /\ color_choice = None
    /\ RenderIdle
    /\ NIH_LOG = Unset
    /\ windows = FALSE
    /\ attached = FALSE
    /\ WriterIdle
    /\ LOGGER_INSTANCE = None
    /\ facade_logger = "none"
    /\ facade_max_level = 0
    /\ builder = [b \in Builders |-> IdleBuilder]
    /\ ThreadInit
    /\ ret = None

NextColor == new_stderr

SpecColor == InitColor /\ [][NextColor]_vars

\* ------------------------------------------------- the text of one line
\* The text is a sequence of tokens, in the order of the writes of do_log.
\* The colour of the level tag is left out: it adds no text.
ModulePath == "my_crate::module"
FileName == "lib.rs"
LineNumber == "42"
ThreadNames == {None, Some("main"), Some("worker")}
ThreadIds == {"1", "7"}

\* logger.rs:71-95: the level tag
level_tag(level) ==
    CASE level = 1 -> " [ERROR] "
      [] level = 2 -> " [WARN] "
      [] level = 3 -> " [INFO] "
      [] level = 4 -> " [DEBUG] "
      [] OTHER -> " [TRACE] "

thread_textAlwaysNamed(t) ==
    IF t.name # None THEN <<"(", t.id, ", ", Unwrap(t.name), ")">>
    ELSE <<"(", t.id, ")">>

\* logger.rs:98-113: the thread's id, and its name unless it is "main"
thread_text(t) ==
    IF t.name # None /\ Unwrap(t.name) # "main"
    THEN <<"(", t.id, ", ", Unwrap(t.name), ")">>
    ELSE <<"(", t.id, ")">>

\* logger.rs:97-125: thread and module path
metadata(always_show, rec, t) ==
    IF rec.level >= 4
    THEN thread_text(t)
           \o (IF rec.module_path # None THEN <<" ", Unwrap(rec.module_path)>> ELSE <<>>)
           \o <<": ">>
    ELSE IF always_show
    THEN IF rec.module_path # None THEN <<Unwrap(rec.module_path), ": ">> ELSE <<>>
    ELSE <<>>

\* logger.rs:127-133: file and line, at the trace level
location(rec) ==
    IF rec.level >= 5
    THEN IF rec.file # None /\ rec.line # None
         THEN <<"[", Unwrap(rec.file), ":", Unwrap(rec.line), "] ">>
         ELSE IF rec.file # None THEN <<"[", Unwrap(rec.file), "] ">>
         ELSE <<>>
    ELSE <<>>

\* Logger::do_log (logger.rs:56-139): everything it writes for one record
do_log_text(always_show, rec, t) ==
    <<"hh:mm:ss", level_tag(rec.level)>> \o metadata(always_show, rec, t)
        \o location(rec) \o <<"message", "\n">>

\* Logger::do_log for the record, on the current thread
do_log ==
    /\ rendered' = Some(do_log_text(Logger.always_show_module_path, record,
                                    current_thread))
    /\ UNCHANGED <<record, current_thread, colorVars>>
    /\ UNCHANGED <<NIH_LOG, windows, attached, writerVars, installVars, threadVars, ret>>

RenderRecords ==
    [level : Levels, module_path : {None, Some(ModulePath)},
     file : {None, Some(FileName)}, line : {None, Some(LineNumber)}]

\* A logger that shows module paths always or not, any record, any thread.
InitRender ==
    /\ record \in RenderRecords
    /\ current_thread \in [id : ThreadIds, name : ThreadNames]
    /\ rendered = None
    /\ ColorIdle
    /\ NIH_LOG = Unset
    /\ windows = FALSE
    /\ attached = FALSE
    /\ WriterIdle
    /\ \E a \in BOOLEAN :
          LOGGER_INSTANCE = Some([InstalledLogger EXCEPT !.always_show_module_path = a,
                                                         !.max_log_level = 5])
    /\ facade_logger = "nih"
    /\ facade_max_level = 5
    /\ builder = [b \in Builders |-> IdleBuilder]
    /\ ThreadInit
    /\ ret = None

NextRender == do_log

SpecRender == InitRender /\ [][NextRender]_vars

\* Threads inside a call keep running: the steps that carry a started call
\* forward are taken when they stay possible.  Starting a call and panicking
\* are the caller's choice and carry no fairness.
Progress(t) ==
    \/ LogLock(t) \/ WritePiece(t, TRUE) \/ LogFlushReturn(t, TRUE)
    \/ FlushLock(t) \/ FlushRelock(t)

LiveSpec == Spec /\ \A t \in Threads : WF_vars(Progress(t))

TypeOK ==
    /\ lockHolder \in {{}} \cup {{t} : t \in Threads}
    /\ poisoned \in BOOLEAN
    /\ CallsStarted <= MaxCalls
    /\ \A t \in Threads : Len(stack[t]) <= MaxDepth

\* ------------------------------------------------------------ observations
HasChunk(o, id, part) == \E i \in 1..Len(o) : o[i].id = id /\ o[i].part = part

\* the three writes of line id reached o
LineComplete(o, id) ==
    HasChunk(o, id, "head") /\ HasChunk(o, id, "msg") /\ HasChunk(o, id, "nl")

\* no chunk of another line lies between two chunks of one line
Contiguous(o) ==
    \A i, j, k \in 1..Len(o) :
        (i < j /\ j < k /\ o[i].id = o[k].id) => o[j].id = o[i].id

EnvDest == DestOf(default_from_environment(NIH_LOG))

WroteLine(c) == c.kind = "log" /\ c.path # "filtered"

\* the calls of thread t, as a set of indices
CallIds(t) == 1..Len(calls[t])

\* C1: a log() call started by a thread inside its own log() call never
\* takes the locked path: it is on the fallback path, writing through a fresh
\* target resolved from NIH_LOG, its line is in that destination once it has
\* returned, and no log() frame waits for the Mutex that its own thread holds.
C1_NestedLogBypassesLock ==
    \A t \in Threads :
        /\ \A i \in 1..Len(stack[t]) :
              LET f == stack[t][i] IN
              f.op = "log" =>
                  /\ (f.next = "lock") => lockHolder # {t}
                  /\ (i > 1) => (f.path = "fallback" /\ f.dest = EnvDest)
        /\ \A k \in CallIds(t) :
              LET c == calls[t][k] IN
              (WroteLine(c) /\ c.depth > 0) =>
                  /\ c.path = "fallback"
                  /\ c.done => LineComplete(out[EnvDest], <<t, k>>)

\* a nested log() call has returned while its thread still holds the Mutex
C1_Witness ==
    \E t \in Threads :
        /\ lockHolder = {t}
        /\ Len(stack[t]) = 1
        /\ \E k \in CallIds(t) :
              /\ WroteLine(calls[t][k]) /\ calls[t][k].depth = 1
              /\ calls[t][k].done

\* C2: in every destination the chunks of one line form one contiguous run,
\* whatever the interleaving of calls and nested calls, and the line of every
\* call that returned is complete (it ends with its line terminator).
C2_LinesNeverInterleave ==
    /\ \A d \in Dests : Contiguous(out[d])
    /\ \A t \in Threads : \A k \in CallIds(t) :
          (WroteLine(calls[t][k]) /\ calls[t][k].done) =>
              \E d \in Dests : LineComplete(out[d], <<t, k>>)

\* the line terminators of the outermost calls of thread t that reached o,
\* in the order in which they reached it
TerminatorsOf(o, t) ==
    LET IsMine(c) == c.part = "nl" /\ c.id[1] = t /\ calls[t][c.id[2]].depth = 0
        sel == SelectSeq(o, IsMine)
    IN [i \in 1..Len(sel) |-> sel[i].id[2]]

\* C3: the outermost, non-filtered log() calls of one thread that returned
\* each have exactly one complete line in the logger's target, and these
\* lines are in call order.
C3_SequentialCallsAllInTarget ==
    \A t \in Threads :
        LET lines == TerminatorsOf(out[CfgDest], t) IN
        /\ \A k \in CallIds(t) :
              (WroteLine(calls[t][k]) /\ calls[t][k].depth = 0 /\ calls[t][k].done) =>
                  /\ LineComplete(out[CfgDest], <<t, k>>)
                  /\ Cardinality({i \in 1..Len(lines) : lines[i] = k}) = 1
        /\ \A i, j \in 1..Len(lines) : i < j => lines[i] < lines[j]

\* C4: every call that a thread has started ends: the thread's call stack
\* empties again (checked under LiveSpec).
C4_EveryCallReturns ==
    \A t \in Threads : (stack[t] # <<>>) ~> (stack[t] = <<>>)

\* C9: a log() call that finds the Mutex poisoned does not panic: it takes
\* the lock, and once it has returned its line is complete in the target.
C9_PoisonedLogProceeds ==
    \A t \in Threads :
        /\ panicCause[t] # "poison_log"
        /\ \A k \in CallIds(t) :
              (calls[t][k].sawPoison /\ calls[t][k].done) =>
                  LineComplete(out[CfgDest], <<t, k>>)

\* a log() call took the poisoned Mutex and returned
C9_Witness ==
    \E t \in Threads : \E k \in CallIds(t) :
        calls[t][k].kind = "log" /\ calls[t][k].sawPoison /\ calls[t][k].done

\* C10: no flush() call panics because the Mutex is poisoned.
C10_PoisonedFlushReturns ==
    \A t \in Threads : panicCause[t] # "poison_flush"

\* C16: a thread that is outside log(), whether its outermost call returned,
\* was filtered or was left by a panic, has its flag clear, and each of its
\* outermost log() calls that writes a line takes the locked path.
C16_FlagClearOutsideLog ==
    \A t \in Threads :
        /\ (stack[t] = <<>>) => ~IS_REENTRANT_LOGGING_CALL[t]
        /\ \A k \in CallIds(t) :
              (WroteLine(calls[t][k]) /\ calls[t][k].depth = 0) =>
                  calls[t][k].path = "locked"

\* C18: a flush() call, made outside any log() call, that finds nothing
\* buffered in the logger's target ends as a call that returned and changes
\* nothing: no output, no panic, no change to the buffers or to the Mutex.
C18_EmptyFlushIsNoOp ==
    [][\A t \in Threads :
          (/\ Len(stack[t]) = 1
           /\ Top(t).op = "flush" /\ Top(t).next = "lock"
           /\ targetBuf = <<>> /\ dbgBuf = <<>>
           /\ stack'[t] # stack[t])
          => /\ calls'[t][Top(t).k].done
             /\ panicCause'[t] = panicCause[t]
             /\ <<out, targetBuf, dbgBuf, lockHolder, poisoned>>'
                    = <<out, targetBuf, dbgBuf, lockHolder, poisoned>>
      ]_vars

\* ------------------------------------------------- targets and failed writes

\* C11: a write or flush that fails while a line is rendered raises no
\* panic; when the thread is back outside log() the Mutex is not held by it
\* and its flag is clear, and every outermost log() call, also one made after
\* a call whose writes failed, takes the locked path.
C11_WriteFailuresSwallowed ==
    \A t \in Threads :
        /\ panicCause[t] = "none"
        /\ (stack[t] = <<>>) => (~IS_REENTRANT_LOGGING_CALL[t] /\ lockHolder # {t})
        /\ \A k \in CallIds(t) :
              (WroteLine(calls[t][k]) /\ calls[t][k].depth = 0) =>
                  calls[t][k].path = "locked"

\* a call whose write failed and whose flush failed has returned, and a
\* later outermost call took the locked path and returned
C11_Witness ==
    \E t \in Threads : \E k1, k2 \in CallIds(t) :
        /\ k1 < k2
        /\ calls[t][k1].write_failed /\ calls[t][k1].flush_failed
        /\ calls[t][k1].depth = 0 /\ calls[t][k1].done
        /\ calls[t][k2].depth = 0 /\ calls[t][k2].path = "locked" /\ calls[t][k2].done
\* a piece of line id waits in a buffer of the logger's target
Buffered(id) ==
    \/ \E i \in 1..Len(targetBuf) : targetBuf[i].id = id
    \/ \E i \in 1..Len(dbgBuf) : dbgBuf[i].id = id

RECURSIVE AfterLastLineFeed(_)
AfterLastLineFeed(bytes) ==
    IF bytes = <<>> THEN <<>>
    ELSE IF bytes[Len(bytes)] = LINE_FEED THEN <<>>
    ELSE Append(AfterLastLineFeed(SubSeq(bytes, 1, Len(bytes) - 1)), bytes[Len(bytes)])

RECURSIVE PendingOf(_)
PendingOf(h) ==
    IF h = <<>> THEN <<>>
    ELSE LET e == h[Len(h)]
             before == PendingOf(SubSeq(h, 1, Len(h) - 1))
         IN IF e.op = "flush" THEN <<>>
            ELSE IF \E i \in 1..Len(e.bytes) : e.bytes[i] = LINE_FEED
            THEN AfterLastLineFeed(e.bytes)
            ELSE before \o e.bytes

\* the emissions that the history asks for: one for each line feed written,
\* one for each flush() that found bytes pending
RECURSIVE EmissionsOf(_)
EmissionsOf(h) ==
    IF h = <<>> THEN 0
    ELSE LET e == h[Len(h)]
             front == SubSeq(h, 1, Len(h) - 1)
         IN EmissionsOf(front)
            + (IF e.op = "flush" THEN (IF PendingOf(front) # <<>> THEN 1 ELSE 0)
               ELSE Cardinality({i \in 1..Len(e.bytes) : e.bytes[i] = LINE_FEED}))

\* an emitted buffer holds at most one line: a line feed is its last unit
\* before the terminator
OneLine(units) ==
    \A i \in 1..Len(units) : units[i] = LINE_FEED => i = Len(units) - 1

\* C17: after any writes and flushes the byte buffer holds no line feed and
\* is exactly what was written since the last line feed or flush; every
\* line feed written has led to an emission of its own, and no emission
\* holds more than one line; write() returns the length of its input.
C17_LineBuffering ==
    ~dropped =>
        /\ \A i \in 1..Len(buffer) : buffer[i] # LINE_FEED
        /\ buffer = PendingOf(written)
        /\ Len(emitted) = EmissionsOf(written)
        /\ \A i \in 1..Len(emitted) : OneLine(emitted[i])
        /\ (written # <<>> /\ written[Len(written)].op = "write") =>
              write_ret = Some([op |-> "write", ok |-> TRUE,
                                n |-> Len(written[Len(written)].bytes)])

\* one write has carried two line feeds, and bytes written after the last
\* line feed are pending
C17_Witness ==
    /\ ~dropped
    /\ buffer # <<>>
    /\ Len(emitted) >= 2
    /\ \E i \in 1..Len(written) :
          written[i].op = "write" /\ written[i].bytes = <<LINE_FEED, LINE_FEED>>

\* bytes is the UTF-8 form of a text over the characters written
RECURSIVE IsUtf8(_)
IsUtf8(bytes) ==
    \/ bytes = <<>>
    \/ \E c \in TextChars :
          LET e == as_bytes(<<c>>) IN
          /\ Len(e) <= Len(bytes)
          /\ SubSeq(bytes, 1, Len(e)) = e
          /\ IsUtf8(SubSeq(bytes, Len(e) + 1, Len(bytes)))

Diagnostic == Append(DiagUnits, 0)
FlushResult == Some([op |-> "flush", ok |-> TRUE, n |-> 0])
WriteResult(n) == Some([op |-> "write", ok |-> TRUE, n |-> n])
LineFeeds(bytes) == {i \in 1..Len(bytes) : bytes[i] = LINE_FEED}

\* C19: a flush that finds bytes which are no valid UTF-8, made by flush(),
\* by the drop of the writer or by a write() that ends a line, emits the
\* diagnostic in place of the bytes, reports success and leaves the byte
\* buffer empty.
C19_InvalidUtf8Diagnostic ==
    [][/\ (buffer # <<>> /\ ~IsUtf8(buffer)
           /\ written' = Append(written, [op |-> "flush", bytes |-> <<>>]))
          => (emitted' = Append(emitted, Diagnostic) /\ buffer' = <<>>
              /\ write_ret' = FlushResult)
       /\ (buffer # <<>> /\ ~IsUtf8(buffer) /\ dropped' # dropped)
          => (emitted' = Append(emitted, Diagnostic) /\ buffer' = <<>>)
       /\ \A buf \in WriteInputs :
             (/\ written' = Append(written, [op |-> "write", bytes |-> buf])
              /\ LineFeeds(buf) = {Len(buf)}
              /\ ~IsUtf8(buffer \o buf))
             => (emitted' = Append(emitted, Diagnostic) /\ buffer' = <<>>
                 /\ write_ret' = WriteResult(Len(buf)))
      ]_vars

\* flush() has just emitted the diagnostic for bytes that were half a
\* character
C19_Witness ==
    /\ written # <<>> /\ written[Len(written)].op = "flush"
    /\ ~IsUtf8(PendingOf(SubSeq(written, 1, Len(written) - 1)))
    /\ emitted # <<>> /\ emitted[Len(emitted)] = Diagnostic
    /\ buffer = <<>>
    /\ write_ret = FlushResult

\* the text of UTF-16 units: a surrogate pair is one character
RECURSIVE Utf16Decode(_)
Utf16Decode(units) ==
    IF units = <<>> THEN <<>>
    ELSE IF Len(units) >= 2 /\ units[1] >= 55296 /\ units[1] < 56320
            /\ units[2] >= 56320 /\ units[2] < 57344
    THEN <<65536 + (units[1] - 55296) * 1024 + (units[2] - 56320)>>
         \o Utf16Decode(SubSeq(units, 3, Len(units)))
    ELSE <<units[1]>> \o Utf16Decode(Tail(units))

\* the bytes of all emitted buffers, terminators removed, one after another
RECURSIVE EmittedBytes(_)
EmittedBytes(bufs) ==
    IF bufs = <<>> THEN <<>>
    ELSE LET units == Head(bufs) IN
         as_bytes(Utf16Decode(SubSeq(units, 1, Len(units) - 1)))
         \o EmittedBytes(Tail(bufs))

\* the bytes of all writes, one after another
RECURSIVE WrittenBytes(_)
WrittenBytes(h) == IF h = <<>> THEN <<>> ELSE Head(h).bytes \o WrittenBytes(Tail(h))

AllWritesAreText == \A i \in 1..Len(written) : IsUtf8(written[i].bytes)

\* C20: when every write() carried valid UTF-8 text and the writer has been
\* dropped, every emitted buffer ends with the null terminator and the
\* emitted buffers, decoded and put together, are the bytes written.
C20_RoundTrip ==
    (dropped /\ AllWritesAreText) =>
        /\ \A i \in 1..Len(emitted) :
              emitted[i] # <<>> /\ emitted[i][Len(emitted[i])] = 0
        /\ EmittedBytes(emitted) = WrittenBytes(written)

\* text with a character above U+FFFF was written, the last line did not
\* end, and the drop of the writer emitted it
C20_Witness ==
    /\ dropped /\ AllWritesAreText
    /\ Len(emitted) >= 2
    /\ PendingOf(written) # <<>>
    /\ \E i \in 1..Len(written) : written[i].bytes = as_bytes(<<128512, LINE_FEED>>)
    /\ EmittedBytes(emitted) = WrittenBytes(written)

\* ------------------------------------------------- the debugger's channel
SeqSet(q) == {q[i] : i \in 1..Len(q)}

\* the pieces that went the debugger's way, and those that went to stderr or
\* to the file, written out or still buffered
DebuggerPieces == SeqSet(dbgBuf) \cup SeqSet(out["windbg"])
StreamPieces == SeqSet(targetBuf) \cup SeqSet(out["stderr"]) \cup SeqSet(out[LogPath])

CallOf(c) == calls[c.id[1]][c.id[2]]

\* the explicit targets: nothing is routed by the debugger's presence
ExplicitNeverRerouted ==
    /\ Logger.output_target.kind \in {"Stderr", "File"} => DebuggerPieces = {}
    /\ Logger.output_target.kind = "File" => SeqSet(out["stderr"]) = {}
    /\ Logger.output_target.kind = "WinDbg" => StreamPieces = {}

FoldCase(s) == [i \in 1..Len(s) |-> to_ascii_lowercase(s[i])]

\* the value that the resolver reads: unset reads as empty
EnvValue == IF NIH_LOG = Unset THEN "" ELSE NIH_LOG
EnvIs(word) == FoldCase(Chars(EnvValue)) = Chars(word)

\* the dynamic target where the build has one, plain stderr elsewhere
PlatformDefault == IF windows THEN DynamicTarget ELSE StderrTarget

\* builder b went through build_global() without a target of its own
ResolvedFromEnv(b) == builder[b].logger # None /\ builder[b].output_target = None
ResolvedTarget(b) == Unwrap(builder[b].logger).output_target

IsDiag(c) == c.part = "diag"
DiagCount == Len(SelectSeq(out["stderr"], IsDiag))

\* what a value that is not a reserved word resolves to
FileOrDefault(tgt) ==
    IF EnvValue = "" THEN tgt = PlatformDefault /\ DiagCount = 0
    ELSE IF Openable(EnvValue) THEN tgt = FileTarget(EnvValue) /\ DiagCount = 0
    ELSE tgt = PlatformDefault /\ DiagCount = 1

C15_FailedTargetKeepsBuilder ==
    [][\A b \in Builders :
          /\ (Configuring(b) /\ builder'[b].pc = "target_err") =>
                LET e == Unwrap(builder'[b].error) IN
                /\ e.builder = Config(builder[b])
                /\ e.path = Unwrap(builder'[b].before).path
                /\ ~Openable(e.path)
                /\ e.error = "io::Error"
          /\ (builder[b].pc = "target_err" /\ Configuring(b)') =>
                Config(builder'[b]) = Unwrap(builder[b].before).config
      ]_vars

\* a builder with a level, the module-path flag, a blacklist entry and a
\* target of its own got the error for a file that cannot be opened
C15_Witness ==
    \E b \in Builders :
        /\ builder[b].pc = "target_err"
        /\ LET e == Unwrap(builder[b].error) IN
           /\ e.path = BadPath
           /\ e.builder.always_show_module_path
           /\ e.builder.module_blacklist # {}
           /\ e.builder.output_target = Some(FileTarget(LogPath))

\* ---------------------------------------------------------- installation
Installed ==
    <<LOGGER_INSTANCE, facade_logger, facade_max_level, lockHolder, poisoned,
      targetBuf>>

\* C5: LOGGER_INSTANCE is set at most once, and once a build_global() has
\* succeeded no step changes the installed logger, its output target, the
\* facade's logger or the global maximum level, no other build_global()
\* succeeds, and a builder that enters build_global() ends in the error.
C5_InstalledOnce ==
    [][/\ (LOGGER_INSTANCE # None) => (LOGGER_INSTANCE' = LOGGER_INSTANCE)
       /\ (\E b \in Builders : Succeeded(b)) =>
             /\ Installed' = Installed
             /\ \A b \in Builders :
                   /\ Succeeded(b)' => Succeeded(b)
                   /\ (Configuring(b) /\ builder'[b].pc \notin {"config", "target_err"})
                          => builder'[b].pc = "err"
      ]_vars

\* a build_global() made after another one had succeeded ended in the error
C5_Witness ==
    \E b \in Builders : builder[b].pc = "err" /\ builder[b].after_ok

\* --------------------------------------------------------------- filtering
Lower(s) == [i \in 1..Len(s) |-> IF s[i] = "A" THEN "a" ELSE s[i]]
IsSubstring(e, s) ==
    \E i \in 0..(Len(s) - Len(e)) : SubSeq(s, i + 1, i + Len(e)) = e

\* entry e is not name, but equals it up to case or is contained in it
Similar(e, name) == e # name /\ (Lower(e) = Lower(name) \/ IsSubstring(e, name))

\* an entry equals the part of name before its first colon
CrateListed(bl, name) ==
    \E i \in 1..Len(name) :
        /\ name[i] = ":"
        /\ \A j \in 1..(i - 1) : name[j] # ":"
        /\ SubSeq(name, 1, i - 1) \in bl

Suppressed(bl, name) == name \in bl \/ CrateListed(bl, name)

NameOf(rec) == IF rec.module_path = None THEN rec.target ELSE Unwrap(rec.module_path)

NoOutput(id) == \A d \in Dests : \A i \in 1..Len(out[d]) : out[d][i].id # id

\* C6: enabled(level, target) is true exactly when the level is within the
\* maximum level and the blacklist does not suppress the target.
C6_EnabledCombinesFilters ==
    ret # None =>
        LET r == Unwrap(ret) IN
        r.value = (r.level <= Logger.max_log_level
                   /\ ~Suppressed(Logger.module_blacklist, r.target))

\* C7: log() drops a record whose level is more verbose than the logger's
\* maximum level: the call writes nothing.
C7_LogRechecksLevel ==
    \A t \in Threads : \A k \in CallIds(t) :
        (calls[t][k].kind = "log" /\ calls[t][k].rec.level > Logger.max_log_level) =>
            (calls[t][k].path = "filtered" /\ NoOutput(<<t, k>>))

\* C8 as stated: a record is dropped when its name is a blacklist entry, and
\* a record whose name is no entry but resembles one (by case, or by
\* containing it) is written.
C8_ExactMatchOnly ==
    \A t \in Threads : \A k \in CallIds(t) :
        LET c == calls[t][k]
            bl == Logger.module_blacklist
        IN c.kind = "log" =>
              /\ (NameOf(c.rec) \in bl) => (c.path = "filtered" /\ NoOutput(<<t, k>>))
              /\ (NameOf(c.rec) \notin bl /\ \E e \in bl : Similar(e, NameOf(c.rec))) =>
                    c.path # "filtered"

\* C8 amended: log() writes nothing exactly when the record's name is a
\* blacklist entry or the part of the name before its first colon is one;
\* every other record, also one that resembles an entry by case or contains
\* one, gets its line written.
C8_ExactOrCrateMatch ==
    \A t \in Threads : \A k \in CallIds(t) :
        LET c == calls[t][k]
            bl == Logger.module_blacklist
        IN c.kind = "log" =>
              /\ (c.path = "filtered") <=> Suppressed(bl, NameOf(c.rec))
              /\ (c.path = "filtered") => NoOutput(<<t, k>>)
              /\ (c.path # "filtered" /\ c.done) => LineComplete(out[CfgDest], <<t, k>>)

\* a record whose name only resembles an entry had its line written
C8_Witness ==
    \E t \in Threads : \E k \in CallIds(t) :
        LET c == calls[t][k] IN
        /\ c.kind = "log" /\ c.path # "filtered" /\ c.done
        /\ \E e \in Logger.module_blacklist : Similar(e, NameOf(c.rec))
        /\ LineComplete(out[CfgDest], <<t, k>>)

\* ------------------------------------------------------- the colour policy
Choice == Unwrap(color_choice)

\* the variable is set, to whatever value
IsSet(v) == v.state # "unset"
\* the variable is set to the text "0", character for character
IsLiteralZero(v) == v.state = "ok" /\ v.chars = <<"0">>
\* the variable holds Unicode text that is one "0" with nothing but white
\* space around it
IsPaddedZero(v) ==
    /\ v.state = "ok"
    /\ \E i \in 1..Len(v.chars) :
          /\ v.chars[i] = "0"
          /\ \A j \in 1..Len(v.chars) : j # i => v.chars[j] = " "
IsText(v) == v.state = "ok"

\* the precedence chain: forced on, else turned off by NO_COLOR, else turned
\* off by CLICOLOR, else permitted exactly on a terminal
ChainHolds(forced, noColor, cliOff) ==
    color_choice # None =>
        /\ forced => Choice = "Always"
        /\ (~forced /\ noColor) => Choice = "Never"
        /\ (~forced /\ ~noColor /\ cliOff) => Choice = "Never"
        /\ (~forced /\ ~noColor /\ ~cliOff) =>
              /\ stderr_is_tty => Choice = "Auto"
              /\ ~stderr_is_tty => Choice = "Never"

\* C21 as stated: CLICOLOR_FORCE set to anything but "0" forces colours on;
\* otherwise NO_COLOR set to anything but "0" turns them off; otherwise
\* CLICOLOR set to "0" turns them off; otherwise colours are permitted
\* exactly when stderr is a terminal.
C21_LiteralZero ==
    ChainHolds(IsSet(CLICOLOR_FORCE) /\ ~IsLiteralZero(CLICOLOR_FORCE),
               IsSet(NO_COLOR) /\ ~IsLiteralZero(NO_COLOR),
               IsLiteralZero(CLICOLOR))

\* C21 amended: a variable counts as set when it holds Unicode text, and as
\* "0" when that text is "0" once the white space around it is removed; with
\* that, the same chain: CLICOLOR_FORCE set to anything but "0" forces
\* colours on, otherwise NO_COLOR set to anything but "0" turns them off,
\* otherwise CLICOLOR set to "0" turns them off, otherwise colours are
\* permitted exactly when stderr is a terminal.
C21_TrimmedZero ==
    ChainHolds(IsText(CLICOLOR_FORCE) /\ ~IsPaddedZero(CLICOLOR_FORCE),
               IsText(NO_COLOR) /\ ~IsPaddedZero(NO_COLOR),
               IsPaddedZero(CLICOLOR))

\* colours were forced on against NO_COLOR, CLICOLOR and a stderr that is
\* no terminal, by a CLICOLOR_FORCE with white space in it
C21_Witness ==
    /\ color_choice = Some("Always")
    /\ CLICOLOR_FORCE = [state |-> "ok", chars |-> <<" ", "1">>]
    /\ NO_COLOR = [state |-> "ok", chars |-> <<"1">>]
    /\ CLICOLOR = [state |-> "ok", chars |-> <<"0">>]
    /\ ~stderr_is_tty

\* ------------------------------------------- the metadata of a rendered line
Text == Unwrap(rendered)
Has(tok) == \E i \in 1..Len(Text) : Text[i] = tok
\* the tokens toks stand in the text from position i on
At(i, toks) ==
    /\ i + Len(toks) - 1 <= Len(Text)
    /\ SubSeq(Text, i, i + Len(toks) - 1) = toks

DebugOrTrace == record.level >= 4
AlwaysShown == Logger.always_show_module_path
HasPath == record.module_path # None
\* the thread has a name and it is not the main thread's default name
Named == current_thread.name # None /\ Unwrap(current_thread.name) # "main"
HasName == Has("main") \/ Has("worker")

\* C22 as stated: when the level is Debug or Trace, or always_show_module_path
\* is set, the line holds the thread's id (its name with it only at Debug or
\* Trace and only when the name is set and is not "main"), then the module
\* path if there is one, then ": "; when neither holds, the line holds no
\* thread id and no module path.
C22_SegmentWhenShown ==
    rendered # None =>
        IF DebugOrTrace \/ AlwaysShown
        THEN \E i, k \in 1..Len(Text) :
                /\ i < k
                /\ Text[i] = current_thread.id
                /\ Text[k] = ": "
                /\ HasName <=> (DebugOrTrace /\ Named)
                /\ HasPath => \E j \in 1..Len(Text) :
                                 i < j /\ j < k /\ Text[j] = ModulePath
        ELSE ~Has(current_thread.id) /\ ~Has(ModulePath)

\* C22 amended: when the level is Debug or Trace, the line holds, right after
\* the level tag, the thread's id in parentheses (its name with it only when
\* the name is set and is not "main"), then the module path if there is one,
\* then ": "; at any other level, when always_show_module_path is set and
\* there is a module path, the line holds the module path and ": " there and
\* no thread id; in every other case the line holds no thread id, no module
\* path and no ": ".
C22_SegmentByLevel ==
    rendered # None =>
        IF DebugOrTrace
        THEN /\ At(3, (IF Named
                       THEN <<"(", current_thread.id, ", ",
                              Unwrap(current_thread.name), ")">>
                       ELSE <<"(", current_thread.id, ")">>)
                      \o (IF HasPath THEN <<" ", ModulePath>> ELSE <<>>)
                      \o <<": ">>)
             /\ HasName <=> Named
        ELSE IF AlwaysShown /\ HasPath
        THEN /\ At(3, <<ModulePath, ": ", "message">>)
             /\ ~Has(current_thread.id) /\ ~Has("(") /\ ~HasName
        ELSE /\ At(3, <<"message">>)
             /\ ~Has(current_thread.id) /\ ~Has(ModulePath) /\ ~Has(": ")
             /\ ~HasName

\* an Info line of a logger that always shows module paths, written by a
\* named thread: the module path is there, the thread is not
C22_Witness ==
    /\ rendered # None
    /\ record.level = 3 /\ AlwaysShown /\ HasPath /\ Named
    /\ Has(ModulePath) /\ ~Has(current_thread.id)

\* ------------------------------------------- where the nested lines end up
\* a piece of line id reached destination d
PieceIn(d, id) == \E i \in 1..Len(out[d]) : out[d][i].id = id

\* call k of thread t writes a line and was made inside another log() call
IsNested(t, k) == WroteLine(calls[t][k]) /\ calls[t][k].depth > 0
\* call k of thread t writes a line and was made outside any other call
IsOutermost(t, k) == WroteLine(calls[t][k]) /\ calls[t][k].depth = 0

\* the line of a nested call is in the destination that NIH_LOG resolves to
\* and nowhere else
NestedLinesFollowEnv ==
    \A t \in Threads : \A k \in CallIds(t) :
        IsNested(t, k) =>
            /\ \A d \in Dests : PieceIn(d, <<t, k>>) => d = EnvDest
            /\ calls[t][k].done => LineComplete(out[EnvDest], <<t, k>>)

\* C23: the line of a nested log() call goes to the destination resolved
\* from NIH_LOG and not to the logger's target; and when the logger's target
\* was set explicitly to another destination than NIH_LOG resolves to, no
\* destination holds both a nested call's line and the line of any other
\* call of the logger.
C23_NestedLinesApart ==
    /\ NestedLinesFollowEnv
    /\ (EnvDest # CfgDest) =>
          \A d \in Dests : \A t, u \in Threads :
              \A k \in CallIds(t) : \A j \in CallIds(u) :
                  (IsNested(t, k) /\ IsOutermost(u, j)) =>
                      ~(PieceIn(d, <<t, k>>) /\ PieceIn(d, <<u, j>>))

\* ------------------------------------------- the order of nested lines
\* the call inside which call k of thread t was made: the last call before
\* it that is one level further out
Enclosing(t, k) ==
    CHOOSE e \in 1..(k - 1) :
        /\ calls[t][e].depth = calls[t][k].depth - 1
        /\ \A x \in (e + 1)..(k - 1) : calls[t][x].depth >= calls[t][k].depth

\* where the line of a call goes
DestOfCall(c) == IF c.path = "locked" THEN CfgDest ELSE EnvDest

\* C24: when a nested log() call that writes to the same destination as the
\* call around it has returned, its line is complete in that destination and
\* every piece of it lies ahead of every piece of the enclosing call's line:
\* never inside that line, never after it.
C24_NestedLineAhead ==
    \A t \in Threads : \A k \in CallIds(t) :
        (IsNested(t, k) /\ calls[t][k].done
            /\ DestOfCall(calls[t][k]) = DestOfCall(calls[t][Enclosing(t, k)])) =>
            LET d == DestOfCall(calls[t][k])
                e == Enclosing(t, k)
            IN /\ LineComplete(out[d], <<t, k>>)
               /\ \A i, j \in 1..Len(out[d]) :
                     (out[d][i].id = <<t, k>> /\ out[d][j].id = <<t, e>>) => i < j

\* ------------------------------------------------- the flag of each thread
\* thread u is in the middle of a log() call
InLog(u) == \E i \in 1..Len(stack[u]) : stack[u][i].op = "log"

\* in this step thread t, outside any call of its own, starts a log() call
\* that is not filtered
StartsOutermostLog(t) ==
    /\ stack[t] = <<>>
    /\ Len(stack'[t]) = 1
    /\ stack'[t][1].op = "log"

\* in this step the flag of thread t changes only by a step of a log() call
\* of thread t itself
FlagChangedByOwner(t) ==
    (IS_REENTRANT_LOGGING_CALL'[t] # IS_REENTRANT_LOGGING_CALL[t]) =>
        /\ stack'[t] # stack[t]
        /\ \/ stack'[t] # <<>> /\ stack'[t][Len(stack'[t])].op = "log"
           \/ stack[t] # <<>> /\ Top(t).op = "log"

\* C25: a log() call that a thread starts, outside any log() call of its
\* own, while another thread is in the middle of a log() call never takes the
\* lock-free path: it goes on to wait for the Mutex of the shared target; and
\* the flag of a thread changes only in steps of that thread's own log()
\* calls.
C25_FlagIsPerThread ==
    [][\A t \in Threads :
          /\ FlagChangedByOwner(t)
          /\ (StartsOutermostLog(t) /\ \E u \in Threads \ {t} : InLog(u)) =>
                /\ stack'[t][1].path = "locked"
                /\ stack'[t][1].next = "lock"
      ]_vars

\* the same for the calls of a thread whose own flag is clear
PerThreadWhenClear ==
    [][\A t \in Threads :
          /\ FlagChangedByOwner(t)
          /\ (StartsOutermostLog(t) /\ ~IS_REENTRANT_LOGGING_CALL[t]) =>
                /\ stack'[t][1].path = "locked"
                /\ stack'[t][1].next = "lock"
      ]_vars
====
